---- MODULE Spec2Model ----
(***************************************************************************)
(* kat: a cut-like utility (src/src/lib.rs, src/src/main.rs).              *)
(*                                                                         *)
(* Text is modelled as Rust models it: a str is a sequence of Unicode      *)
(* code points (integers), and its bytes are the UTF-8 encoding of those   *)
(* code points.  A csv record is a sequence of fields, each field a str.   *)
(*                                                                         *)
(* Three specifications share the variables:                               *)
(*   SpecParse   parse_positions applied to a range-list string            *)
(*   SpecExtract the per-line body of process_reader applied to one line   *)
(*   SpecMain    main: parse_config, then run over the sources             *)
(***************************************************************************)
EXTENDS Integers, Sequences, FiniteSets, TLC

VARIABLES
    pc,        \* position of the program
    arg,       \* SpecParse: the argument of parse_positions
    parsed,    \* SpecParse: what parse_positions returned
    selector,  \* SpecExtract: the Selector of the Config
    input,     \* SpecExtract: the line (or csv record) read
    output,    \* SpecExtract: what is written for it
    cmd,       \* SpecMain: the matched command line
    config,    \* SpecMain: what parse_config returned
    fileIdx,   \* SpecMain: index into config.files of the source at hand
    events,    \* SpecMain: what the environment delivered so far (history)
    stdout,    \* SpecMain: lines/records written to standard output
    stderr,    \* SpecMain: messages written to standard error
    exitCode   \* SpecMain: process exit status (-1 while running)

vars == <<pc, arg, parsed, selector, input, output, cmd, config, fileIdx,
          events, stdout, stderr, exitCode>>

parseVars == <<arg, parsed>>
extractVars == <<selector, input, output>>
mainVars == <<cmd, config, fileIdx, events, stdout, stderr, exitCode>>

-----------------------------------------------------------------------------
(* Bounds of the model *)

\* longest range-list string enumerated for parse_positions
MaxLen == 5
\* most ranges in an enumerated Positions value
MaxRanges == 2
\* largest range end in an enumerated Positions value
MaxIdx == 3
\* most code points in an enumerated line / fields in an enumerated record
MaxLine == 2
\* most sources on the command line
MaxFiles == 2
\* most lines (records) read from one source
MaxReads == 2

-----------------------------------------------------------------------------
(* Characters the code names *)

Comma == 44
Minus == 45
Plus == 43
Tab == 9

\* 2^64 - 1 as decimal digits: the largest usize of a 64-bit target
UsizeMaxDigits ==
    <<49,56,52,52,54,55,52,52,48,55,51,55,48,57,53,53,49,54,49,53>>

-----------------------------------------------------------------------------
(* str helpers *)

IsDigit(c) == c \in 48..57

\* str::starts_with(char), str::ends_with(char)
StartsWith(s, c) == Len(s) > 0 /\ s[1] = c
EndsWith(s, c) == Len(s) > 0 /\ s[Len(s)] = c

\* str::split(char): the pieces between the separators, in order; a string
\* without separator (the empty one included) is a single piece
RECURSIVE Split(_, _)
Split(s, c) ==
    IF \A i \in 1..Len(s) : s[i] # c
    THEN <<s>>
    ELSE LET k == CHOOSE i \in 1..Len(s) :
                      s[i] = c /\ \A j \in 1..(i - 1) : s[j] # c
         IN <<SubSeq(s, 1, k - 1)>> \o Split(SubSeq(s, k + 1, Len(s)), c)

RECURSIVE StripZeros(_)
StripZeros(s) ==
    IF Len(s) > 1 /\ s[1] = 48 THEN StripZeros(Tail(s)) ELSE s

\* a < b for digit strings of the same length
RECURSIVE LexLess(_, _)
LexLess(a, b) ==
    IF Len(a) = 0 THEN FALSE
    ELSE IF a[1] # b[1] THEN a[1] < b[1]
    ELSE LexLess(Tail(a), Tail(b))

RECURSIVE DecimalValue(_)
DecimalValue(s) ==
    IF Len(s) = 0 THEN 0
    ELSE 10 * DecimalValue(SubSeq(s, 1, Len(s) - 1)) + (s[Len(s)] - 48)

\* the digits denote a number above usize::MAX
Overflows(digits) ==
    LET d == StripZeros(digits)
    IN \/ Len(d) > Len(UsizeMaxDigits)
       \/ Len(d) = Len(UsizeMaxDigits) /\ LexLess(UsizeMaxDigits, d)

\* str::parse::<usize>(): an optional '+', then one or more ASCII digits
\* whose value fits usize
ParseUsize(s) ==
    LET digits == IF Len(s) > 1 /\ s[1] = Plus THEN Tail(s) ELSE s
    IN IF Len(s) = 0 \/ \E i \in 1..Len(digits) : ~IsDigit(digits[i])
       THEN [ok |-> FALSE, val |-> 0]
       ELSE IF Overflows(digits)
       THEN [ok |-> FALSE, val |-> 0]
       ELSE [ok |-> TRUE, val |-> DecimalValue(StripZeros(digits))]

-----------------------------------------------------------------------------
(* Errors (Box<dyn Error> holding a message) *)

NoError == [kind |-> "none", text |-> <<>>, first |-> 0, second |-> 0]
\* "kat: illegal list value: '{}'"
IllegalValue(v) == [kind |-> "illegal", text |-> v, first |-> 0, second |-> 0]
\* "kat: list values may not include zero"
ZeroValue == [kind |-> "zero", text |-> <<>>, first |-> 0, second |-> 0]
\* "First number in range ({}) must be lower than second number ({})"
RangeOrder(start, end) ==
    [kind |-> "order", text |-> <<>>, first |-> start, second |-> end]
\* "kat: bad delimiter"
BadDelimiter == [kind |-> "delimiter", text |-> <<>>, first |-> 0, second |-> 0]
\* "Must have --fields, --bytes, or --chars"
NoSelector == [kind |-> "selector", text |-> <<>>, first |-> 0, second |-> 0]
\* an std::io::Error / csv::Error of the environment
IoError == [kind |-> "io", text |-> <<>>, first |-> 0, second |-> 0]

-----------------------------------------------------------------------------
(* parse_positions *)

\* parse_num without the sign check: str::parse accepts a leading '+'
parse_num_plus_ok(s) ==
    LET num == ParseUsize(s)
    IN IF StartsWith(s, Minus) \/ EndsWith(s, Minus) \/ ~num.ok
       THEN [ok |-> FALSE, val |-> 0, err |-> IllegalValue(s)]
       ELSE IF num.val = 0 THEN [ok |-> FALSE, val |-> 0, err |-> ZeroValue]
       ELSE [ok |-> TRUE, val |-> num.val, err |-> NoError]

\* the closure parse_num
parse_num(s) ==
    IF \/ StartsWith(s, Minus) \/ StartsWith(s, Plus)
       \/ EndsWith(s, Minus) \/ EndsWith(s, Plus)
    THEN [ok |-> FALSE, val |-> 0, err |-> IllegalValue(s)]
    ELSE LET num == ParseUsize(s)
         IN IF ~num.ok THEN [ok |-> FALSE, val |-> 0, err |-> IllegalValue(s)]
            ELSE IF num.val = 0
            THEN [ok |-> FALSE, val |-> 0, err |-> ZeroValue]
            ELSE [ok |-> TRUE, val |-> num.val, err |-> NoError]

\* parse_part accepting a range whose bounds are equal
parse_part_le(part) ==
    IF StartsWith(part, Minus) \/ EndsWith(part, Minus)
    THEN [ok |-> FALSE, val |-> <<0, 0>>, err |-> IllegalValue(part)]
    ELSE
      LET inner_parts == Split(part, Minus)
      IN IF Len(inner_parts) = 1
         THEN LET n == parse_num(inner_parts[1])
              IN IF ~n.ok THEN [ok |-> FALSE, val |-> <<0, 0>>, err |-> n.err]
                 ELSE [ok |-> TRUE, val |-> <<n.val - 1, n.val>>, err |-> NoError]
         ELSE IF Len(inner_parts) = 2
         THEN LET start == parse_num(inner_parts[1])
                  end == parse_num(inner_parts[2])
              IN IF ~start.ok
                 THEN [ok |-> FALSE, val |-> <<0, 0>>, err |-> start.err]
                 ELSE IF ~end.ok
                 THEN [ok |-> FALSE, val |-> <<0, 0>>, err |-> end.err]
                 ELSE IF end.val < start.val
                 THEN [ok |-> FALSE, val |-> <<0, 0>>,
                       err |-> RangeOrder(start.val, end.val)]
                 ELSE [ok |-> TRUE, val |-> <<start.val - 1, end.val>>,
                       err |-> NoError]
         ELSE [ok |-> FALSE, val |-> <<0, 0>>, err |-> IllegalValue(part)]

\* parse_part parsing every component before it looks at their number
parse_part_numbers_first(part) ==
    IF StartsWith(part, Minus) \/ EndsWith(part, Minus)
    THEN [ok |-> FALSE, val |-> <<0, 0>>, err |-> IllegalValue(part)]
    ELSE
      LET inner_parts == Split(part, Minus)
          nums == [i \in 1..Len(inner_parts) |-> parse_num(inner_parts[i])]
          failed == {i \in 1..Len(nums) : ~nums[i].ok}
      IN IF failed # {}
         THEN [ok |-> FALSE, val |-> <<0, 0>>,
               err |-> nums[CHOOSE i \in failed : \A j \in failed : i <= j].err]
         ELSE IF Len(inner_parts) = 1
         THEN [ok |-> TRUE, val |-> <<nums[1].val - 1, nums[1].val>>,
               err |-> NoError]
         ELSE IF Len(inner_parts) = 2
         THEN IF nums[2].val <= nums[1].val
              THEN [ok |-> FALSE, val |-> <<0, 0>>,
                    err |-> RangeOrder(nums[1].val, nums[2].val)]
              ELSE [ok |-> TRUE, val |-> <<nums[1].val - 1, nums[2].val>>,
                    err |-> NoError]
         ELSE [ok |-> FALSE, val |-> <<0, 0>>, err |-> IllegalValue(part)]

\* one iteration of the loop over arg.split(','): the range pushed, or the
\* error returned
parse_part(part) ==
    IF StartsWith(part, Minus) \/ EndsWith(part, Minus)
    THEN [ok |-> FALSE, val |-> <<0, 0>>, err |-> IllegalValue(part)]
    ELSE
      LET inner_parts == Split(part, Minus)
      IN IF Len(inner_parts) = 1
         THEN LET n == parse_num(inner_parts[1])
              IN IF ~n.ok THEN [ok |-> FALSE, val |-> <<0, 0>>, err |-> n.err]
                 ELSE [ok |-> TRUE, val |-> <<n.val - 1, n.val>>, err |-> NoError]
         ELSE IF Len(inner_parts) = 2
         THEN LET start == parse_num(inner_parts[1])
                  end == parse_num(inner_parts[2])
              IN IF ~start.ok
                 THEN [ok |-> FALSE, val |-> <<0, 0>>, err |-> start.err]
                 ELSE IF ~end.ok
                 THEN [ok |-> FALSE, val |-> <<0, 0>>, err |-> end.err]
                 ELSE IF end.val <= start.val
                 THEN [ok |-> FALSE, val |-> <<0, 0>>,
                       err |-> RangeOrder(start.val, end.val)]
                 ELSE [ok |-> TRUE, val |-> <<start.val - 1, end.val>>,
                       err |-> NoError]
         ELSE [ok |-> FALSE, val |-> <<0, 0>>, err |-> IllegalValue(part)]

\* parse_parts dropping a range it already holds
RECURSIVE parse_parts_dedup(_, _)
parse_parts_dedup(parts, positions) ==
    IF Len(parts) = 0
    THEN [ok |-> TRUE, val |-> positions, err |-> NoError]
    ELSE LET r == parse_part(Head(parts))
         IN IF ~r.ok THEN [ok |-> FALSE, val |-> <<>>, err |-> r.err]
            ELSE IF \E i \in 1..Len(positions) : positions[i] = r.val
            THEN parse_parts_dedup(Tail(parts), positions)
            ELSE parse_parts_dedup(Tail(parts), Append(positions, r.val))

\* the loop: positions grows by one range per part, the first error returns
RECURSIVE parse_parts(_, _)
parse_parts(parts, positions) ==
    IF Len(parts) = 0
    THEN [ok |-> TRUE, val |-> positions, err |-> NoError]
    ELSE LET r == parse_part(Head(parts))
         IN IF ~r.ok THEN [ok |-> FALSE, val |-> <<>>, err |-> r.err]
            ELSE parse_parts(Tail(parts), Append(positions, r.val))

parse_positions(a) ==
    IF Len(a) = 0 \/ StartsWith(a, Comma) \/ EndsWith(a, Comma)
    THEN [ok |-> FALSE, val |-> <<>>, err |-> IllegalValue(a)]
    ELSE parse_parts(Split(a, Comma), <<>>)

-----------------------------------------------------------------------------
(* Values the variables hold while a specification does not use them *)

NoResult == [ok |-> FALSE, val |-> <<>>, err |-> NoError]
NoSel == [kind |-> "none", positions |-> <<>>]
NoCmd == [delimiter |-> <<>>, fields |-> <<>>, chars |-> <<>>, bytes |-> <<>>,
          files |-> <<>>]
NoConfig == [ok |-> FALSE, files |-> <<>>, selector |-> NoSel, delimiter |-> 0,
             err |-> NoError]

ParseIdle == arg = <<>> /\ parsed = NoResult
ExtractIdle == selector = NoSel /\ input = <<>> /\ output = <<>>
MainIdle ==
    /\ cmd = NoCmd /\ config = NoConfig /\ fileIdx = 0 /\ events = <<>>
    /\ stdout = <<>> /\ stderr = <<>> /\ exitCode = -1

-----------------------------------------------------------------------------
(* SpecParse: parse_positions on every string of at most MaxLen characters *)
(* over ArgAlphabet, and on the strings of test_parse_positions            *)

\* '0' '1' '2' 'a' '+' '-' ','
ArgAlphabet == {48, 49, 50, 97, Plus, Minus, Comma}

TestArgs ==
    { <<49>>,                          \* "1"
      <<49,45,51>>,                    \* "1-3"
      <<49,45,51,44,56,45,49,48>>,     \* "1-3,8-10"
      <<>>,                            \* ""
      <<48>>,                          \* "0"
      <<48,45,49>>,                    \* "0-1"
      <<43,49>>,                       \* "+1"
      <<43,49,45,50>>,                 \* "+1-2"
      <<43,50>>,                       \* "+2"
      <<97>>,                          \* "a"
      <<49,44,97>>,                    \* "1,a"
      <<49,45,97>>,                    \* "1-a"
      <<97,45,49>>,                    \* "a-1"
      <<45>>,                          \* "-"
      <<44>>,                          \* ","
      <<49,44>>,                       \* "1,"
      <<49,45>>,                       \* "1-"
      <<49,45,49,45,49>>,              \* "1-1-1"
      <<49,45,49,45,97>>,              \* "1-1-a"
      <<49,45,49>>,                    \* "1-1"
      <<50,45,49>>,                    \* "2-1"
      <<48,49>>,                       \* "01"
      <<49,44,51>>,                    \* "1,3"
      <<48,48,49,44,48,48,48,51>>,     \* "001,0003"
      <<48,48,48,49,45,48,51>>,        \* "0001-03"
      <<49,44,55,44,51,45,53>>,        \* "1,7,3-5"
      <<49,53,44,49,57,45,50,48>> }    \* "15,19-20"

\* range lists with a number one above usize::MAX (2^64)
BigArgs ==
    { <<49,56,52,52,54,55,52,52,48,55,51,55,48,57,53,53,49,54,49,54>>,
      <<49,45,49,56,52,52,54,55,52,52,48,55,51,55,48,57,53,53,49,54,49,54>> }

ArgStrings ==
    UNION {[1..n -> ArgAlphabet] : n \in 0..MaxLen} \cup TestArgs \cup BigArgs

InitParse ==
    /\ pc = "parse"
    /\ arg \in ArgStrings
    /\ parsed = NoResult
    /\ ExtractIdle /\ MainIdle

ParsePositions ==
    /\ pc = "parse"
    /\ parsed' = parse_positions(arg)
    /\ pc' = "parsed"
    /\ UNCHANGED <<arg, extractVars, mainVars>>

NextParse == ParsePositions

SpecParse == InitParse /\ [][NextParse]_vars

-----------------------------------------------------------------------------
(* The grammar of spec.md 4.1, stated on the text alone *)

Seps(s, c) == {i \in 1..Len(s) : s[i] = c}
NPieces(s, c) == Cardinality(Seps(s, c)) + 1
\* the k-th of the pieces of s that the separators c delimit
Piece(s, c, k) ==
    LET nth(n) == CHOOSE p \in Seps(s, c) :
                      Cardinality({q \in Seps(s, c) : q <= p}) = n
        lo == IF k = 1 THEN 0 ELSE nth(k - 1)
        hi == IF k = NPieces(s, c) THEN Len(s) + 1 ELSE nth(k)
    IN SubSeq(s, lo + 1, hi - 1)

AllDigits(s) == Len(s) > 0 /\ \A i \in 1..Len(s) : IsDigit(s[i])
IsZero(s) == AllDigits(s) /\ \A i \in 1..Len(s) : s[i] = 48
\* a < b as numbers, for digit strings
NumLess(a, b) ==
    LET x == StripZeros(a)
        y == StripZeros(b)
    IN Len(x) < Len(y) \/ (Len(x) = Len(y) /\ LexLess(x, y))
\* signed, not a number, or not a usize
BadNumber(s) == ~AllDigits(s) \/ Overflows(s)
GoodNumber(s) == AllDigits(s) /\ ~Overflows(s) /\ ~IsZero(s)
DashEdged(it) == StartsWith(it, Minus) \/ EndsWith(it, Minus)
Comps(it) == [j \in 1..NPieces(it, Minus) |-> Piece(it, Minus, j)]

Acceptable(it) ==
    \/ GoodNumber(it)
    \/ /\ NPieces(it, Minus) = 2
       /\ GoodNumber(Piece(it, Minus, 1))
       /\ GoodNumber(Piece(it, Minus, 2))
       /\ NumLess(Piece(it, Minus, 1), Piece(it, Minus, 2))

Malformed(a) == Len(a) = 0 \/ a[1] = Comma \/ a[Len(a)] = Comma
BadItems(a) == {k \in 1..NPieces(a, Comma) : ~Acceptable(Piece(a, Comma, k))}
\* the item parse_positions stops at: the first one that is not acceptable
FirstBad(a) ==
    Piece(a, Comma, CHOOSE k \in BadItems(a) : \A j \in BadItems(a) : k <= j)
Stopped(a) == ~Malformed(a) /\ BadItems(a) # {}

-----------------------------------------------------------------------------
(* C1 *)

\* C1: an accepted range list yields one range per comma-separated item, in
\* the order written; item N yields [N-1, N) and item N-M yields [N-1, M),
\* numbers read at their numeric value; so every range has 0 <= start < end.
C1_OneRangePerItem ==
    (pc = "parsed" /\ parsed.ok) =>
        /\ Len(parsed.val) = NPieces(arg, Comma)
        /\ \A k \in 1..Len(parsed.val) :
              LET it == Piece(arg, Comma, k)
                  r == parsed.val[k]
              IN /\ \/ /\ AllDigits(it)
                       /\ r = <<DecimalValue(it) - 1, DecimalValue(it)>>
                    \/ /\ NPieces(it, Minus) = 2
                       /\ AllDigits(Piece(it, Minus, 1))
                       /\ AllDigits(Piece(it, Minus, 2))
                       /\ r = <<DecimalValue(Piece(it, Minus, 1)) - 1,
                                DecimalValue(Piece(it, Minus, 2))>>
                 /\ 0 <= r[1] /\ r[1] < r[2]

\* "1,7,3-5" yields [0,1), [6,7), [2,5): unordered, not merged
C1_Witness ==
    /\ pc = "parsed"
    /\ arg = <<49,44,55,44,51,45,53>>
    /\ parsed.ok
    /\ parsed.val = << <<0, 1>>, <<6, 7>>, <<2, 5>> >>

-----------------------------------------------------------------------------
(* C7 *)

\* C7 as claimed: an empty string or one with a leading or trailing comma
\* is an illegal value naming the whole string; the item parsing stops at
\* names itself when it starts or ends with '-', and otherwise, when one of
\* its components is signed or no non-negative integer, names such a
\* component alone.
C7_Original ==
    pc = "parsed" =>
        /\ Malformed(arg) => (~parsed.ok /\ parsed.err = IllegalValue(arg))
        /\ Stopped(arg) =>
              LET it == FirstBad(arg)
                  bad == {j \in 1..NPieces(it, Minus) : BadNumber(Comps(it)[j])}
              IN /\ DashEdged(it) =>
                       (~parsed.ok /\ parsed.err = IllegalValue(it))
                 /\ (~DashEdged(it) /\ bad # {}) =>
                       /\ ~parsed.ok
                       /\ \E j \in bad : parsed.err = IllegalValue(Comps(it)[j])

\* C7 (amended): as claimed for the whole string and for an item that starts
\* or ends with '-'; a signed or non-numeric component is named alone when
\* the item has at most two components and no component to its left is
\* rejected (a zero to its left gives the zero error, and an item of three
\* or more components names the whole item).
C7_IllegalValueNames ==
    pc = "parsed" =>
        /\ Malformed(arg) => (~parsed.ok /\ parsed.err = IllegalValue(arg))
        /\ Stopped(arg) =>
              LET it == FirstBad(arg)
                  c == Comps(it)
                  rejected == {j \in 1..Len(c) : ~GoodNumber(c[j])}
                  first == CHOOSE j \in rejected : \A i \in rejected : j <= i
              IN /\ DashEdged(it) =>
                       (~parsed.ok /\ parsed.err = IllegalValue(it))
                 /\ (~DashEdged(it) /\ Len(c) <= 2 /\ rejected # {}
                       /\ BadNumber(c[first])) =>
                       (~parsed.ok /\ parsed.err = IllegalValue(c[first]))
                 /\ (~DashEdged(it) /\ Len(c) <= 2 /\ rejected # {}
                       /\ ~BadNumber(c[first])) =>
                       (~parsed.ok /\ parsed.err = ZeroValue)
                 /\ (~DashEdged(it) /\ Len(c) > 2) =>
                       (~parsed.ok /\ parsed.err = IllegalValue(it))

\* "+1-2" names "+1"
C7_Witness ==
    /\ pc = "parsed"
    /\ arg = <<43,49,45,50>>
    /\ ~parsed.ok
    /\ parsed.err = IllegalValue(<<43,49>>)

-----------------------------------------------------------------------------
(* C8 *)

\* what C8 says of an item whose components are all unsigned decimals
ZeroOrOrder(it) ==
    LET c == Comps(it)
    IN IF \E j \in 1..Len(c) : IsZero(c[j]) THEN "zero"
       ELSE IF Len(c) = 2 /\ ~NumLess(c[1], c[2]) THEN "order"
       ELSE "accept"

Unsigned(it) ==
    NPieces(it, Minus) <= 2 /\ \A j \in 1..NPieces(it, Minus) : AllDigits(Comps(it)[j])
Fits(it) == \A j \in 1..NPieces(it, Minus) : ~Overflows(Comps(it)[j])

\* the items up to the k-th are all unsigned (and, with fit, fit usize) and
\* all before the k-th are accepted by C8's classification
ReachesItem(a, k, fit) ==
    /\ ~Malformed(a)
    /\ k \in 1..NPieces(a, Comma)
    /\ \A i \in 1..k :
          /\ Unsigned(Piece(a, Comma, i))
          /\ fit => Fits(Piece(a, Comma, i))
          /\ i < k => ZeroOrOrder(Piece(a, Comma, i)) = "accept"

ClassifiedAs(a, k) ==
    LET it == Piece(a, Comma, k)
        c == Comps(it)
    IN CASE ZeroOrOrder(it) = "zero" ->
              ~parsed.ok /\ parsed.err = ZeroValue
         [] ZeroOrOrder(it) = "order" ->
              /\ ~parsed.ok
              /\ parsed.err = RangeOrder(DecimalValue(c[1]), DecimalValue(c[2]))
         [] OTHER ->
              \* accepted: parsing went on to the next item, or ended well
              \/ parsed.ok /\ Len(parsed.val) >= k
              \/ ~parsed.ok /\ k < NPieces(a, Comma)

\* C8 as claimed: an item N or N-M of unsigned decimal numbers fails with
\* the zero error when a component is 0, otherwise with the range-order
\* error naming N and M when M <= N, and is accepted in every other case.
C8_Original ==
    pc = "parsed" =>
        \A k \in 1..NPieces(arg, Comma) :
            ReachesItem(arg, k, FALSE) => ClassifiedAs(arg, k)

\* C8 (amended): the same, for unsigned decimal numbers that fit usize
\* (at most 2^64 - 1 on a 64-bit target).
C8_ZeroOrderAccept ==
    pc = "parsed" =>
        \A k \in 1..NPieces(arg, Comma) :
            ReachesItem(arg, k, TRUE) => ClassifiedAs(arg, k)

\* "1,1-1" fails with the range-order error naming (1) and (1)
C8_Witness ==
    /\ pc = "parsed"
    /\ arg = <<49,44,49,45,49>>
    /\ ~parsed.ok
    /\ parsed.err = RangeOrder(1, 1)

-----------------------------------------------------------------------------
(* C10 *)

FirstOf(S) == CHOOSE j \in S : \A i \in S : j <= i

\* the error spec.md's priority order gives the item parsing stops at
ClaimedError(it) ==
    LET c == Comps(it)
        bad == {j \in 1..Len(c) : BadNumber(c[j])}
        zero == {j \in 1..Len(c) : IsZero(c[j])}
    IN IF DashEdged(it) THEN IllegalValue(it)
       ELSE IF bad # {} THEN IllegalValue(c[FirstOf(bad)])
       ELSE IF zero # {} THEN ZeroValue
       ELSE IF Len(c) > 2 THEN IllegalValue(it)
       ELSE RangeOrder(DecimalValue(c[1]), DecimalValue(c[2]))

\* the error the order of the checks in the code gives it
OrderedError(it) ==
    LET c == Comps(it)
        rejected == {j \in 1..Len(c) : ~GoodNumber(c[j])}
    IN IF DashEdged(it) THEN IllegalValue(it)
       ELSE IF Len(c) > 2 THEN IllegalValue(it)
       ELSE IF rejected # {}
       THEN IF BadNumber(c[FirstOf(rejected)])
            THEN IllegalValue(c[FirstOf(rejected)])
            ELSE ZeroValue
       ELSE RangeOrder(DecimalValue(c[1]), DecimalValue(c[2]))

\* C10 as claimed: the item parsing stops at gets the error of the first
\* rule it breaks in the order: starts or ends with '-'; signed or
\* non-numeric component; zero component; more than two components;
\* inverted bounds.
C10_Original ==
    (pc = "parsed" /\ Stopped(arg)) =>
        (~parsed.ok /\ parsed.err = ClaimedError(FirstBad(arg)))

\* C10 (amended): the order is: starts or ends with '-'; more than two
\* components (the whole item is named); then the components from left to
\* right, each first for being signed or non-numeric and then for being
\* zero; then inverted bounds.
C10_Priority ==
    (pc = "parsed" /\ Stopped(arg)) =>
        (~parsed.ok /\ parsed.err = OrderedError(FirstBad(arg)))

\* "0-1-2" names the whole item, not the zero
C10_Witness ==
    /\ pc = "parsed"
    /\ arg = <<48,45,49,45,50>>
    /\ ~parsed.ok
    /\ parsed.err = IllegalValue(<<48,45,49,45,50>>)

-----------------------------------------------------------------------------
(* UTF-8: str::as_bytes and String::from_utf8_lossy *)

\* U+FFFD REPLACEMENT CHARACTER
Replacement == 65533

\* the UTF-8 encoding of one code point
Utf8Encode(c) ==
    IF c < 128 THEN <<c>>
    ELSE IF c < 2048 THEN <<192 + (c \div 64), 128 + (c % 64)>>
    ELSE IF c < 65536
    THEN <<224 + (c \div 4096), 128 + ((c \div 64) % 64), 128 + (c % 64)>>
    ELSE <<240 + (c \div 262144), 128 + ((c \div 4096) % 64),
           128 + ((c \div 64) % 64), 128 + (c % 64)>>

\* str::as_bytes: the encodings of the code points, concatenated
RECURSIVE as_bytes(_)
as_bytes(s) ==
    IF Len(s) = 0 THEN <<>> ELSE Utf8Encode(Head(s)) \o as_bytes(Tail(s))

\* str::len: the length in bytes
ByteLen(s) == Len(as_bytes(s))

IsCont(b) == b \in 128..191

\* the second byte a three- or four-byte sequence may have after lead
SecondOk(lead, b) ==
    CASE lead = 224 -> b \in 160..191
      [] lead = 237 -> b \in 128..159
      [] lead = 240 -> b \in 144..191
      [] lead = 244 -> b \in 128..143
      [] OTHER -> b \in 128..191

\* String::from_utf8_lossy: every well-formed sequence decodes to its code
\* point; every maximal ill-formed part becomes one U+FFFD
RECURSIVE from_utf8_lossy(_)
from_utf8_lossy(b) ==
    LET n == Len(b)
        rest(k) == from_utf8_lossy(SubSeq(b, k + 1, n))
    IN IF n = 0 THEN <<>>
       ELSE IF b[1] < 128 THEN <<b[1]>> \o rest(1)
       ELSE IF b[1] \in 194..223
       THEN IF n >= 2 /\ IsCont(b[2])
            THEN <<(b[1] - 192) * 64 + (b[2] - 128)>> \o rest(2)
            ELSE <<Replacement>> \o rest(1)
       ELSE IF b[1] \in 224..239
       THEN IF ~(n >= 2 /\ SecondOk(b[1], b[2])) THEN <<Replacement>> \o rest(1)
            ELSE IF ~(n >= 3 /\ IsCont(b[3])) THEN <<Replacement>> \o rest(2)
            ELSE <<(b[1] - 224) * 4096 + (b[2] - 128) * 64 + (b[3] - 128)>>
                 \o rest(3)
       ELSE IF b[1] \in 240..244
       THEN IF ~(n >= 2 /\ SecondOk(b[1], b[2])) THEN <<Replacement>> \o rest(1)
            ELSE IF ~(n >= 3 /\ IsCont(b[3])) THEN <<Replacement>> \o rest(2)
            ELSE IF ~(n >= 4 /\ IsCont(b[4])) THEN <<Replacement>> \o rest(3)
            ELSE <<(b[1] - 240) * 262144 + (b[2] - 128) * 4096
                     + (b[3] - 128) * 64 + (b[4] - 128)>> \o rest(4)
       ELSE <<Replacement>> \o rest(1)

-----------------------------------------------------------------------------
(* process_reader: what is written for one line or record *)

\* the indices of the first range only
unique_indices_first(positions) ==
    IF Len(positions) = 0 THEN {}
    ELSE positions[1][1]..(positions[1][2] - 1)

\* the closure unique_indices: the HashSet of the members of every range
unique_indices(positions) ==
    UNION {positions[k][1]..(positions[k][2] - 1) : k \in 1..Len(positions)}

\* for (idx, x) in seq.enumerate() { if all_pos.contains(&idx) { push(x) } }
RECURSIVE Retain(_, _, _)
Retain(seq, idx, all_pos) ==
    IF Len(seq) = 0 THEN <<>>
    ELSE (IF idx \in all_pos THEN <<Head(seq)>> ELSE <<>>)
         \o Retain(Tail(seq), idx + 1, all_pos)

\* Selector::Bytes: the text println! writes for line
BytesLine(line, positions) ==
    from_utf8_lossy(Retain(as_bytes(line), 0, unique_indices(positions)))

\* Selector::Chars: the text println! writes for line
CharsLine(line, positions) ==
    Retain(line, 0, unique_indices(positions))

\* Selector::Fields: the fields the closure printer writes for record
FieldsRecord(record, positions) ==
    Retain(record, 0, unique_indices(positions))

-----------------------------------------------------------------------------
(* SpecExtract: the three extractors on every Positions value of at most   *)
(* MaxRanges ranges within 0..MaxIdx and every line of at most MaxLine     *)
(* code points (record of at most MaxLine fields)                          *)

\* 'a' (1 byte), U+00E9 (2 bytes), U+20AC (3 bytes)
LineAlphabet == {97, 233, 8364}
\* "", "a", "b"
FieldValues == {<<>>, <<97>>, <<98>>}

Ranges == {r \in (0..MaxIdx) \X (0..MaxIdx) : r[1] < r[2]}
PositionsValues == UNION {[1..n -> Ranges] : n \in 0..MaxRanges}
Lines == UNION {[1..n -> LineAlphabet] : n \in 0..MaxLine}
\* a csv record holds at least one field
Records == UNION {[1..n -> FieldValues] : n \in 1..MaxLine}

InitExtract ==
    /\ pc = "extract"
    /\ selector \in [kind : {"bytes", "chars", "fields"},
                     positions : PositionsValues]
    /\ input \in IF selector.kind = "fields" THEN Records ELSE Lines
    /\ output = <<>>
    /\ ParseIdle /\ MainIdle

ExtractBytes ==
    /\ pc = "extract" /\ selector.kind = "bytes"
    /\ output' = BytesLine(input, selector.positions)
    /\ pc' = "extracted"
    /\ UNCHANGED <<selector, input, parseVars, mainVars>>

ExtractChars ==
    /\ pc = "extract" /\ selector.kind = "chars"
    /\ output' = CharsLine(input, selector.positions)
    /\ pc' = "extracted"
    /\ UNCHANGED <<selector, input, parseVars, mainVars>>

ExtractFields ==
    /\ pc = "extract" /\ selector.kind = "fields"
    /\ output' = FieldsRecord(input, selector.positions)
    /\ pc' = "extracted"
    /\ UNCHANGED <<selector, input, parseVars, mainVars>>

NextExtract == ExtractBytes \/ ExtractChars \/ ExtractFields

SpecExtract == InitExtract /\ [][NextExtract]_vars

-----------------------------------------------------------------------------
(* C2 *)

\* the one-based indices of seq whose zero-based index lies in some range
InUnion(seq, positions) ==
    {i \in 1..Len(seq) :
        \E k \in 1..Len(positions) :
            positions[k][1] <= i - 1 /\ i - 1 < positions[k][2]}

\* the subsequence of seq at the indices S, in the order of seq
SubsequenceAt(seq, S) ==
    [j \in 1..Cardinality(S) |->
        seq[CHOOSE i \in S : Cardinality({h \in S : h <= i}) = j]]

Selected(seq, positions) == SubsequenceAt(seq, InUnion(seq, positions))

\* the byte indices (one-based) of the k-th code point of line
BytesOf(line, k) ==
    (ByteLen(SubSeq(line, 1, k - 1)) + 1)..ByteLen(SubSeq(line, 1, k))

\* no code point of line has some of its bytes selected and some not
WholeChars(line, positions) ==
    LET S == InUnion(as_bytes(line), positions)
    IN \A k \in 1..Len(line) :
          BytesOf(line, k) \subseteq S \/ BytesOf(line, k) \cap S = {}

\* C2 as claimed: for each extractor the output is exactly the subsequence
\* of the line's elements (bytes, code points, fields) whose zero-based
\* index lies in the union of the ranges.
C2_Original ==
    pc = "extracted" =>
        CASE selector.kind = "bytes" ->
                as_bytes(output) = Selected(as_bytes(input), selector.positions)
          [] selector.kind = "chars" ->
                output = Selected(input, selector.positions)
          [] selector.kind = "fields" ->
                output = Selected(input, selector.positions)

\* C2 (amended): as claimed for chars and fields; for bytes the output is
\* the lossy UTF-8 decoding of that subsequence of bytes, and it is that
\* subsequence itself when no multi-byte character is selected in part.
C2_SelectedSubsequence ==
    pc = "extracted" =>
        CASE selector.kind = "bytes" ->
                /\ output =
                     from_utf8_lossy(Selected(as_bytes(input), selector.positions))
                /\ WholeChars(input, selector.positions) =>
                     as_bytes(output) =
                         Selected(as_bytes(input), selector.positions)
          [] selector.kind = "chars" ->
                output = Selected(input, selector.positions)
          [] selector.kind = "fields" ->
                output = Selected(input, selector.positions)

\* chars of "a" U+20AC under the overlapping, unordered [1,3), [0,2): both
\* code points, once each, in input order
C2_Witness ==
    /\ pc = "extracted"
    /\ selector.kind = "chars"
    /\ selector.positions = << <<1, 3>>, <<0, 2>> >>
    /\ input = <<97, 8364>>
    /\ output = <<97, 8364>>

-----------------------------------------------------------------------------
(* parse_config and parse_selector *)
(* An Option<String> is <<>> (None) or <<s>> (Some(s)).                    *)

Some(opt) == Len(opt) = 1

\* the closure extract_positions: Option<&String> -> Result<Option<Positions>>
extract_positions(opt) ==
    IF Some(opt) THEN parse_positions(opt[1]) ELSE NoResult

\* the end of parse_selector: the `?` on each of the three results, in the
\* order fields, chars, bytes, then the first list that is given
select(matches, fields, chars, bytes) ==
    IF Some(matches.fields) /\ ~fields.ok
    THEN [ok |-> FALSE, val |-> NoSel, err |-> fields.err]
    ELSE IF Some(matches.chars) /\ ~chars.ok
    THEN [ok |-> FALSE, val |-> NoSel, err |-> chars.err]
    ELSE IF Some(matches.bytes) /\ ~bytes.ok
    THEN [ok |-> FALSE, val |-> NoSel, err |-> bytes.err]
    ELSE IF Some(matches.fields)
    THEN [ok |-> TRUE, val |-> [kind |-> "fields", positions |-> fields.val],
          err |-> NoError]
    ELSE IF Some(matches.chars)
    THEN [ok |-> TRUE, val |-> [kind |-> "chars", positions |-> chars.val],
          err |-> NoError]
    ELSE IF Some(matches.bytes)
    THEN [ok |-> TRUE, val |-> [kind |-> "bytes", positions |-> bytes.val],
          err |-> NoError]
    ELSE [ok |-> FALSE, val |-> NoSel, err |-> NoSelector]

parse_selector(matches) ==
    select(matches, extract_positions(matches.fields),
           extract_positions(matches.chars), extract_positions(matches.bytes))

\* the end of parse_config: the `?` on parse_selector's result, then Config
configure(matches, selector_) ==
    IF ~selector_.ok
    THEN [ok |-> FALSE, files |-> <<>>, selector |-> NoSel, delimiter |-> 0,
          err |-> selector_.err]
    ELSE [ok |-> TRUE, files |-> matches.files, selector |-> selector_.val,
          delimiter |-> as_bytes(matches.delimiter)[1], err |-> NoError]

\* parse_config measuring the delimiter in characters
parse_config_chars(matches) ==
    IF Len(matches.delimiter) # 1
    THEN [ok |-> FALSE, files |-> <<>>, selector |-> NoSel, delimiter |-> 0,
          err |-> BadDelimiter]
    ELSE configure(matches, parse_selector(matches))

\* parse_config, from the matches clap returns
parse_config(matches) ==
    IF ByteLen(matches.delimiter) # 1
    THEN [ok |-> FALSE, files |-> <<>>, selector |-> NoSel, delimiter |-> 0,
          err |-> BadDelimiter]
    ELSE configure(matches, parse_selector(matches))

-----------------------------------------------------------------------------
(* SpecMain: main on a command line of at most MaxFiles sources, each      *)
(* delivering at most MaxReads lines                                       *)

\* "\t" (the default), "", ",," and the two-byte U+00E9
Delimiters == {<<Tab>>, <<>>, <<Comma, Comma>>, <<233>>}
\* "1", "3"; rejected: "0", "a", "2-1"
SelLists == {<<49>>, <<51>>, <<48>>, <<97>>, <<50, 45, 49>>}
FileNames == {"-", "a.txt"}
FileLists == UNION {[1..n -> FileNames] : n \in 1..MaxFiles}

\* what get_matches_from lets through: at most one of -f, -c, -b, and -d
\* only without -c and -b
CmdLines ==
    {m \in [delimiter : Delimiters,
            fields : {<<>>} \cup {<<l>> : l \in SelLists},
            chars : {<<>>} \cup {<<l>> : l \in SelLists},
            bytes : {<<>>} \cup {<<l>> : l \in SelLists},
            files : FileLists] :
        /\ Len(m.fields) + Len(m.chars) + Len(m.bytes) <= 1
        /\ (Some(m.chars) \/ Some(m.bytes)) => m.delimiter = <<Tab>>}

\* lines the environment delivers: "" and "a" U+00E9
MainLines == {<<>>, <<97, 233>>}
\* records the csv reader delivers: "a" and "a","b"
MainRecords == {<< <<97>> >>, << <<97>>, <<98>> >>}

InitMain ==
    /\ pc = "main"
    /\ cmd \in CmdLines
    /\ config = NoConfig
    /\ fileIdx = 0
    /\ events = <<>>
    /\ stdout = <<>>
    /\ stderr = <<>>
    /\ exitCode = -1
    /\ ParseIdle /\ ExtractIdle

Event(e, data) == [ev |-> e, src |-> fileIdx, data |-> data]
IsRead(e) == e.ev = "line"
ReadsOf(i) == SelectSeq(events, LAMBDA e : e.ev = "line" /\ e.src = i)

\* main whose error path ends without exit(1)
main_no_exit ==
    /\ pc = "main"
    /\ config' = parse_config(cmd)
    /\ IF config'.ok
       THEN /\ pc' = "run"
            /\ fileIdx' = 1
            /\ UNCHANGED <<stderr, exitCode>>
       ELSE /\ pc' = "exited"
            /\ stderr' = Append(stderr, [source |-> "", err |-> config'.err])
            /\ exitCode' = 0
            /\ UNCHANGED fileIdx
    /\ UNCHANGED <<cmd, events, stdout, parseVars, extractVars>>

\* main: parse_config, and on Err eprintln and exit(1) without calling run
main ==
    /\ pc = "main"
    /\ config' = parse_config(cmd)
    /\ IF config'.ok
       THEN /\ pc' = "run"
            /\ fileIdx' = 1
            /\ UNCHANGED <<stderr, exitCode>>
       ELSE /\ pc' = "exited"
            /\ stderr' = Append(stderr, [source |-> "", err |-> config'.err])
            /\ exitCode' = 1
            /\ UNCHANGED fileIdx
    /\ UNCHANGED <<cmd, events, stdout, parseVars, extractVars>>

\* run: open(file) is Ok(reader); process_reader starts
OpenOk ==
    /\ pc = "run" /\ fileIdx <= Len(config.files)
    /\ events' = Append(events, Event("open", <<>>))
    /\ pc' = "read"
    /\ UNCHANGED <<cmd, config, fileIdx, stdout, stderr, exitCode,
                   parseVars, extractVars>>

\* run returning the error of open
OpenErr_returns ==
    /\ pc = "run" /\ fileIdx <= Len(config.files)
    /\ config.files[fileIdx] # "-"
    /\ events' = Append(events, Event("openerr", <<>>))
    /\ stderr' = Append(stderr, [source |-> "", err |-> IoError])
    /\ exitCode' = 1
    /\ pc' = "exited"
    /\ UNCHANGED <<cmd, config, fileIdx, stdout, parseVars, extractVars>>

\* run: open(file) is Err(e) (File::open failed; "-" is stdin and opens):
\* eprintln!("{}: {}", file, e), next file
OpenErr ==
    /\ pc = "run" /\ fileIdx <= Len(config.files)
    /\ config.files[fileIdx] # "-"
    /\ events' = Append(events, Event("openerr", <<>>))
    /\ stderr' = Append(stderr, [source |-> config.files[fileIdx],
                                 err |-> IoError])
    /\ fileIdx' = fileIdx + 1
    /\ UNCHANGED <<pc, cmd, config, stdout, exitCode, parseVars, extractVars>>

\* Selector::Bytes: reader.lines() yields Ok(line)
ReadLineBytes ==
    /\ pc = "read" /\ config.selector.kind = "bytes"
    /\ Len(ReadsOf(fileIdx)) < MaxReads
    /\ \E line \in MainLines :
          /\ events' = Append(events, Event("line", line))
          /\ stdout' = Append(stdout, BytesLine(line, config.selector.positions))
    /\ UNCHANGED <<pc, cmd, config, fileIdx, stderr, exitCode,
                   parseVars, extractVars>>

\* Selector::Chars: reader.lines() yields Ok(line)
ReadLineChars ==
    /\ pc = "read" /\ config.selector.kind = "chars"
    /\ Len(ReadsOf(fileIdx)) < MaxReads
    /\ \E line \in MainLines :
          /\ events' = Append(events, Event("line", line))
          /\ stdout' = Append(stdout, CharsLine(line, config.selector.positions))
    /\ UNCHANGED <<pc, cmd, config, fileIdx, stderr, exitCode,
                   parseVars, extractVars>>

\* ReadRecord writing no record when no field is selected
ReadRecord_suppressing ==
    /\ pc = "read" /\ config.selector.kind = "fields"
    /\ Len(ReadsOf(fileIdx)) < MaxReads
    /\ \E record \in MainRecords :
          /\ \A k \in 1..Len(ReadsOf(fileIdx)) :
                Len(ReadsOf(fileIdx)[k].data) = Len(record)
          /\ events' = Append(events, Event("line", record))
          /\ stdout' =
               IF FieldsRecord(record, config.selector.positions) = <<>>
               THEN stdout
               ELSE Append(stdout,
                           FieldsRecord(record, config.selector.positions))
    /\ UNCHANGED <<pc, cmd, config, fileIdx, stderr, exitCode,
                   parseVars, extractVars>>

\* Selector::Fields: csv_reader.records() yields Ok(record); the reader is
\* built without flexible(true), so it yields Ok only records with as many
\* fields as the source's first record
ReadRecord ==
    /\ pc = "read" /\ config.selector.kind = "fields"
    /\ Len(ReadsOf(fileIdx)) < MaxReads
    /\ \E record \in MainRecords :
          /\ \A k \in 1..Len(ReadsOf(fileIdx)) :
                Len(ReadsOf(fileIdx)[k].data) = Len(record)
          /\ events' = Append(events, Event("line", record))
          /\ stdout' = Append(stdout,
                              FieldsRecord(record, config.selector.positions))
    /\ UNCHANGED <<pc, cmd, config, fileIdx, stderr, exitCode,
                   parseVars, extractVars>>

\* ReadErr logging the error under the source's name and going on
ReadErr_continues ==
    /\ pc = "read"
    /\ events' = Append(events, Event("readerr", <<>>))
    /\ stderr' = Append(stderr, [source |-> config.files[fileIdx],
                                 err |-> IoError])
    /\ fileIdx' = fileIdx + 1
    /\ pc' = "run"
    /\ UNCHANGED <<cmd, config, stdout, exitCode, parseVars, extractVars>>

\* the iterator yields Err(e): `result?` returns it from process_reader,
\* `process_reader(..)?` from run, and main prints it and exits with 1
ReadErr ==
    /\ pc = "read"
    /\ events' = Append(events, Event("readerr", <<>>))
    /\ stderr' = Append(stderr, [source |-> "", err |-> IoError])
    /\ exitCode' = 1
    /\ pc' = "exited"
    /\ UNCHANGED <<cmd, config, fileIdx, stdout, parseVars, extractVars>>

\* the iterator ends: process_reader returns Ok(()), next file
ReadEof ==
    /\ pc = "read"
    /\ events' = Append(events, Event("eof", <<>>))
    /\ fileIdx' = fileIdx + 1
    /\ pc' = "run"
    /\ UNCHANGED <<cmd, config, stdout, stderr, exitCode,
                   parseVars, extractVars>>

\* run returns Ok(()) after the last file; main returns, exit status 0
RunOk ==
    /\ pc = "run" /\ fileIdx > Len(config.files)
    /\ exitCode' = 0
    /\ pc' = "exited"
    /\ UNCHANGED <<cmd, config, fileIdx, events, stdout, stderr,
                   parseVars, extractVars>>

NextMain ==
    \/ main
    \/ OpenOk
    \/ OpenErr
    \/ ReadLineBytes
    \/ ReadLineChars
    \/ ReadRecord
    \/ ReadErr
    \/ ReadEof
    \/ RunOk

SpecMain == InitMain /\ [][NextMain]_vars

-----------------------------------------------------------------------------
(* What the claims about a run speak of *)

Reads == SelectSeq(events, IsRead)
Failed(e) == e.ev = "openerr" \/ e.ev = "readerr"
NoFailure == \A k \in 1..Len(events) : ~Failed(events[k])
\* source i was taken up: an attempt to open it was made
Processed(i) ==
    \E k \in 1..Len(events) :
        events[k].src = i /\ (events[k].ev = "open" \/ events[k].ev = "openerr")
\* the output line spec.md gives an input line under the selector
Expected(sel, data) ==
    IF sel.kind = "bytes"
    THEN from_utf8_lossy(Selected(as_bytes(data), sel.positions))
    ELSE Selected(data, sel.positions)

-----------------------------------------------------------------------------
(* C3 *)

-----------------------------------------------------------------------------
(* C4 *)

\* C4: a source that cannot be opened is reported on standard error under
\* its name, yields no output line, and the next source is taken up: every
\* later source is processed, and unless a read fails the run ends with
\* status 0.
C4_OpenFailureContinues ==
    /\ SelectSeq(stderr, LAMBDA m : m.source # "") =
          [j \in 1..Len(SelectSeq(events, LAMBDA e : e.ev = "openerr")) |->
              [source |->
                  config.files[SelectSeq(events,
                                         LAMBDA e : e.ev = "openerr")[j].src],
               err |-> IoError]]
    /\ \A k \in 1..Len(events) :
          events[k].ev = "openerr" =>
              /\ ReadsOf(events[k].src) = <<>>
              /\ k < Len(events) =>
                    /\ events[k + 1].src = events[k].src + 1
                    /\ events[k + 1].ev \in {"open", "openerr"}
              /\ k = Len(events) =>
                    \/ pc = "run" /\ fileIdx = events[k].src + 1
                    \/ pc = "exited" /\ events[k].src = Len(config.files)
              /\ (pc = "exited" /\ \A j \in 1..Len(events) :
                                       events[j].ev # "readerr") =>
                    /\ exitCode = 0
                    /\ \A i \in (events[k].src + 1)..Len(config.files) :
                          Processed(i)

\* the first source failed to open, the second was read and gave output,
\* and the run ended with status 0
C4_Witness ==
    /\ pc = "exited" /\ exitCode = 0
    /\ Len(events) >= 3
    /\ events[1].ev = "openerr" /\ events[1].src = 1
    /\ events[2].ev = "open" /\ events[2].src = 2
    /\ Len(ReadsOf(2)) >= 1
    /\ stderr = <<[source |-> config.files[1], err |-> IoError]>>

-----------------------------------------------------------------------------
(* C5 *)

\* C5 as claimed: an error while reading an opened source is logged under
\* the source's name, and every remaining source is still processed.
C5_Original ==
    \A k \in 1..Len(events) :
        events[k].ev = "readerr" =>
            /\ \E j \in 1..Len(stderr) :
                  stderr[j].source = config.files[events[k].src]
            /\ pc = "exited" =>
                  \A i \in (events[k].src + 1)..Len(config.files) : Processed(i)

\* C5 (amended): an error while reading an opened source is fatal: it ends
\* the run at once, is printed without the source's name, no remaining
\* source is opened, and the exit status is 1; what was written before it
\* stays written.
C5_ReadErrorFatal ==
    \A k \in 1..Len(events) :
        events[k].ev = "readerr" =>
            /\ k = Len(events)
            /\ pc = "exited"
            /\ exitCode = 1
            /\ stderr[Len(stderr)] = [source |-> "", err |-> IoError]
            /\ \A i \in (events[k].src + 1)..Len(config.files) : ~Processed(i)
            /\ Len(stdout) = Len(Reads)

\* the first of two sources gave a line and then a read error
C5_Witness ==
    /\ pc = "exited"
    /\ Len(config.files) = 2
    /\ Len(events) = 3
    /\ events[1].ev = "open" /\ events[2].ev = "line"
    /\ events[3].ev = "readerr" /\ events[3].src = 1
    /\ Len(stdout) = 1

-----------------------------------------------------------------------------
(* C6 *)

Given(m) ==
    IF Some(m.fields) THEN m.fields
    ELSE IF Some(m.chars) THEN m.chars
    ELSE m.bytes

\* the range list breaks the grammar of spec.md 4.1
Rejected(list) == Malformed(list) \/ BadItems(list) # {}

\* C6: a delimiter of zero or several characters, no selector flag, or a
\* rejected range list makes parse_config fail; and whenever parse_config
\* fails no source is opened, no line is read, nothing is written to
\* standard output, and the process ends with a non-zero status.
C6_ConfigErrorFatal ==
    pc # "main" =>
        /\ ( \/ Len(cmd.delimiter) # 1
             \/ Given(cmd) = <<>>
             \/ Rejected(Given(cmd)[1]) ) => ~config.ok
        /\ ~config.ok =>
              /\ pc = "exited"
              /\ exitCode # 0
              /\ events = <<>>
              /\ stdout = <<>>
              /\ stderr = <<[source |-> "", err |-> config.err]>>

\* -f 2-1 with the default delimiter: the range-order error, status 1
C6_Witness ==
    /\ pc = "exited"
    /\ cmd.delimiter = <<Tab>>
    /\ cmd.fields = << <<50, 45, 49>> >>
    /\ ~config.ok /\ config.err = RangeOrder(2, 1)
    /\ exitCode = 1 /\ events = <<>> /\ stdout = <<>>

-----------------------------------------------------------------------------
(* C9 *)

Utf8Width(c) ==
    IF c < 128 THEN 1 ELSE IF c < 2048 THEN 2 ELSE IF c < 65536 THEN 3 ELSE 4
RECURSIVE LengthInBytes(_)
LengthInBytes(s) ==
    IF Len(s) = 0 THEN 0 ELSE Utf8Width(Head(s)) + LengthInBytes(Tail(s))

\* C9 as claimed: "kat: bad delimiter" exactly when the delimiter's length
\* in characters is not one.
C9_Original ==
    pc # "main" =>
        ((~config.ok /\ config.err = BadDelimiter) <=> Len(cmd.delimiter) # 1)

\* C9 (amended): "kat: bad delimiter" exactly when the delimiter's length
\* in bytes (of its UTF-8 encoding) is not one; a single character of two
\* or more bytes is rejected.
C9_BadDelimiter ==
    pc # "main" =>
        ((~config.ok /\ config.err = BadDelimiter)
            <=> LengthInBytes(cmd.delimiter) # 1)

\* the single character U+00E9 is rejected as a bad delimiter
C9_Witness ==
    /\ pc = "exited"
    /\ cmd.delimiter = <<233>>
    /\ ~config.ok /\ config.err = BadDelimiter

====
